---- MODULE Spec2Model ----
(***************************************************************************)
(* ViewManager (modules/core/src/views/view-manager.js): the view list,    *)
(* the derived viewports and controllers, and the two dirty flags.         *)
(* Every public method is one atomic action; the private methods are       *)
(* operators on a record m holding the manager's fields, the controller    *)
(* instances constructed so far (ctl) and the calls made on collaborators  *)
(* during the current public call (made, created, updated, finalized,      *)
(* raised, warned, threw).                                                 *)
(***************************************************************************)
EXTENDS Integers, Sequences, FiniteSets, TLC

\* Bound: controller instances that exist at once (referenced or never finalized).
MaxControllers == 2

\* ------------------------------------------------------------ JS values
\* The flags hold false, true or a reason string.
JsFalse == "<false>"
JsTrue == "<true>"
Truthy(x) == x \notin {JsFalse, ""}
\* a || b
Or(a, b) == IF Truthy(a) THEN a ELSE b

Undefined == [t |-> "undefined"]
Null == [t |-> "null"]
NaN == [t |-> "NaN"]
Num(n) == [t |-> "number", v |-> n]
Obj(o) == [t |-> "object", v |-> o]
Arr(s) == [t |-> "array", v |-> s]
ViewItem(v) == [t |-> "View", v |-> v]
ViewportItem(v, ref) == [t |-> "Viewport", v |-> v, ref |-> ref]
\* Number.isFinite
IsFinite(x) == x.t = "number"
\* Boolean(x) on an argument value
TruthyValue(x) == x.t \notin {"undefined", "null", "NaN"}

\* ------------------------------------------------------------ collaborators
NoController == "none"

\* A view state object, by content: its own camera (zoom) and the per-view entries,
\* each a sub-object holding a zoom.
EmptyPer == [i \in {} |-> 0]
ViewStateObject(zoom, per) == [zoom |-> zoom, per |-> per]
\* deepEqual(a, b): the same keys with deep-equal values
deepEqual(a, b) ==
    /\ a.zoom = b.zoom
    /\ DOMAIN a.per = DOMAIN b.per
    /\ \A k \in DOMAIN a.per : a.per[k] = b.per[k]

\* A Viewport instance.
Viewport(id, x, y, w, h, zoom) ==
    [id |-> id, x |-> x, y |-> y, width |-> w, height |-> h, zoom |-> zoom]
\* A View descriptor: ref is the instance, the rest its props (x is the left edge of
\* its layout); viewportInstance is <<>> or <<viewport>>.
View(id, controller, ref) ==
    [id |-> id, controller |-> controller, x |-> 0, ref |-> ref,
     viewportInstance |-> <<>>]
\* new View({viewportInstance: view})
WrapViewport(vp, ref) ==
    [id |-> vp.id, controller |-> NoController, x |-> 0, ref |-> ref,
     viewportInstance |-> <<vp>>]
\* view.equals(other); other is <<>> where oldViews has no such index
ViewEquals(view, other) ==
    /\ other # <<>>
    /\ view.id = other[1].id
    /\ view.controller = other[1].controller
    /\ view.x = other[1].x
    /\ view.viewportInstance = other[1].viewportInstance
\* view.makeViewport({width, height, viewState})
makeViewport(view, width, height, viewState) ==
    IF view.viewportInstance # <<>>
    THEN view.viewportInstance[1]
    ELSE Viewport(view.id, view.x, 0, width, height, viewState.zoom)

\* ------------------------------------------------------------ state
VARIABLES
    views,          \* this.views
    width,          \* this.width
    height,         \* this.height
    viewState,      \* this.viewState
    controllers,    \* this.controllers: view id -> controller instance (index of ctl)
    _viewports,     \* this._viewports
    _viewportMap,   \* this._viewportMap: id -> viewport
    _needsRedraw,   \* this._needsRedraw
    _needsUpdate,   \* this._needsUpdate
    ctl,            \* the controller instances: instance -> type, id, finalize calls
    log,            \* the last public call: arguments, outcome, calls on collaborators
    firstRaise      \* reason of the earliest raise of the redraw flag since it was consumed

vars == <<views, width, height, viewState, controllers, _viewports, _viewportMap,
          _needsRedraw, _needsUpdate, ctl, log, firstRaise>>

EmptyMap == [i \in {} |-> 0]
Put(f, k, v) == [x \in DOMAIN f \cup {k} |-> IF x = k THEN v ELSE f[x]]
At(s, i) == IF i \in DOMAIN s THEN <<s[i]>> ELSE <<>>

\* The manager at the start of a public call: its fields, and empty call records.
Manager ==
    [views |-> views, width |-> width, height |-> height, viewState |-> viewState,
     controllers |-> controllers, viewports |-> _viewports, viewportMap |-> _viewportMap,
     needsRedraw |-> _needsRedraw, needsUpdate |-> _needsUpdate, ctl |-> ctl,
     made |-> <<>>, created |-> <<>>, updated |-> <<>>, finalized |-> EmptyMap,
     raised |-> <<>>, warned |-> 0, threw |-> FALSE, ret |-> Undefined]

\* ------------------------------------------------------------ flags
\* needsRedraw leaving the flag as it is
NeedsRedrawNoClear(m, clearRedrawFlags) ==
    [m EXCEPT !.ret = [t |-> "flag", v |-> m.needsRedraw]]

needsRedraw(m, clearRedrawFlags) ==
    LET redraw == m.needsRedraw
        m1 == IF clearRedrawFlags THEN [m EXCEPT !.needsRedraw = JsFalse] ELSE m
    IN  [m1 EXCEPT !.ret = [t |-> "flag", v |-> redraw]]

\* setNeedsRedraw keeping the latest reason
SetNeedsRedrawLatest(m, reason) ==
    [m EXCEPT !.needsRedraw = reason, !.raised = Append(@, reason)]

setNeedsRedraw(m, reason) ==
    [m EXCEPT !.needsRedraw = Or(@, reason), !.raised = Append(@, reason)]

\* setNeedsUpdate raising the update flag only
SetNeedsUpdateOnly(m, reason) ==
    [m EXCEPT !.needsUpdate = Or(@, reason), !.raised = Append(@, reason)]

setNeedsUpdate(m, reason) ==
    [m EXCEPT !.needsUpdate = Or(@, reason),
              !.needsRedraw = Or(@, reason),
              !.raised = Append(@, reason)]

\* ------------------------------------------------------------ property setters
\* _setSize storing a finite width before it asserts
SetSizeAssertLate(m, w, h) ==
    IF ~(IsFinite(w) /\ IsFinite(h))
    THEN [m EXCEPT !.width = IF IsFinite(w) THEN w.v ELSE @, !.threw = TRUE]
    ELSE IF w.v # m.width \/ h.v # m.height
         THEN setNeedsUpdate([m EXCEPT !.width = w.v, !.height = h.v], "Size changed")
         ELSE m

_setSize(m, w, h) ==
    IF ~(IsFinite(w) /\ IsFinite(h))
    THEN [m EXCEPT !.threw = TRUE]
    ELSE IF w.v # m.width \/ h.v # m.height
         THEN setNeedsUpdate([m EXCEPT !.width = w.v, !.height = h.v], "Size changed")
         ELSE m

RECURSIVE flatten(_)
flatten(array) ==
    IF Len(array) = 0 THEN <<>>
    ELSE LET value == Head(array)
         IN  (IF value.t = "array" THEN flatten(value.v)
              ELSE IF TruthyValue(value) THEN <<value>>
              ELSE <<>>) \o flatten(Tail(array))

\* _diffViews without the length comparison
DiffViewsNoLength(newViews, oldViews) ==
    \E i \in 1..Len(newViews) : ~ViewEquals(newViews[i], At(oldViews, i))

\* _diffViews comparing the instances instead of calling equals
DiffViewsByIdentity(newViews, oldViews) == newViews # oldViews

_diffViews(newViews, oldViews) ==
    IF Len(newViews) # Len(oldViews)
    THEN TRUE
    ELSE \E i \in 1..Len(newViews) : ~ViewEquals(newViews[i], At(oldViews, i))

_setViews(m, rawViews) ==
    LET flat == flatten(rawViews.v)
        newViews == [i \in 1..Len(flat) |->
                        IF flat[i].t = "Viewport"
                        THEN WrapViewport(flat[i].v, flat[i].ref)
                        ELSE flat[i].v]
        viewsChanged == _diffViews(newViews, m.views)
        m1 == IF viewsChanged THEN setNeedsUpdate(m, "views changed") ELSE m
    IN  [m1 EXCEPT !.views = newViews]

\* _setViewState marking a falsy viewState as a change
SetViewStateFalsyChanges(m, vs) ==
    IF TruthyValue(vs)
    THEN LET viewStateChanged == ~deepEqual(vs.v, m.viewState)
             m1 == IF viewStateChanged THEN setNeedsUpdate(m, "viewState changed") ELSE m
         IN  [m1 EXCEPT !.viewState = vs.v]
    ELSE setNeedsUpdate([m EXCEPT !.warned = @ + 1], "viewState changed")

\* _setViewState comparing the camera of the view state and not its per-view entries
SetViewStateShallow(m, vs) ==
    IF TruthyValue(vs)
    THEN LET viewStateChanged == vs.v.zoom # m.viewState.zoom
             m1 == IF viewStateChanged THEN setNeedsUpdate(m, "viewState changed") ELSE m
         IN  [m1 EXCEPT !.viewState = vs.v]
    ELSE [m EXCEPT !.warned = @ + 1]

_setViewState(m, vs) ==
    IF TruthyValue(vs)
    THEN LET viewStateChanged == ~deepEqual(vs.v, m.viewState)
             m1 == IF viewStateChanged THEN setNeedsUpdate(m, "viewState changed") ELSE m
         IN  [m1 EXCEPT !.viewState = vs.v]
    ELSE [m EXCEPT !.warned = @ + 1]

getViewState(m, viewId) ==
    IF viewId \in DOMAIN m.viewState.per
    THEN ViewStateObject(m.viewState.per[viewId], EmptyPer)
    ELSE m.viewState

\* ------------------------------------------------------------ controllers
\* The identity a new instance gets: one that no existing instance has.
Fresh(m) == CHOOSE c \in 1..(MaxControllers + 3) :
                /\ c \notin DOMAIN m.ctl
                /\ \A d \in 1..(c - 1) : d \in DOMAIN m.ctl

\* new Controller(props)
_createController(m, props) ==
    [m EXCEPT !.ctl = Put(@, Fresh(m), [type |-> props.type, id |-> props.id,
                                        finalized |-> 0]),
              !.created = Append(@, Fresh(m))]

\* controller.setProps(props)
ControllerSetProps(m, controller, props) ==
    [m EXCEPT !.updated = Append(@, [controller |-> controller, props |-> props])]

\* controller.finalize()
ControllerFinalize(m, controller) ==
    [m EXCEPT !.ctl[controller].finalized = @ + 1,
              !.finalized = Put(@, controller,
                                IF controller \in DOMAIN @ THEN @[controller] + 1 ELSE 1)]

\* the loop over the keys calling finalize on nothing
FinalizeKeysSkipped(m, map, keys) == m

\* for (const key in map) if (key is unused) map[key].finalize()
RECURSIVE FinalizeKeys(_, _, _)
FinalizeKeys(m, map, keys) ==
    IF keys = {} THEN m
    ELSE LET key == CHOOSE k \in keys : TRUE
         IN  FinalizeKeys(ControllerFinalize(m, map[key]), map, keys \ {key})

\* ------------------------------------------------------------ rebuild
\* the forEach storing every viewport under its id, a later one over an earlier one
RECURSIVE ForEachViewportLastWins(_, _, _)
ForEachViewportLastWins(map, viewports, i) ==
    IF i > Len(viewports) THEN map
    ELSE LET viewport == viewports[i]
             map1 == IF viewport.id # "" THEN Put(map, viewport.id, viewport) ELSE map
         IN  ForEachViewportLastWins(map1, viewports, i + 1)

\* this._viewports.forEach(viewport => ...) from the i-th viewport on
RECURSIVE ForEachViewport(_, _, _)
ForEachViewport(map, viewports, i) ==
    IF i > Len(viewports) THEN map
    ELSE LET viewport == viewports[i]
             map1 == IF viewport.id # ""
                     THEN Put(map, viewport.id,
                              IF viewport.id \in DOMAIN map THEN map[viewport.id] ELSE viewport)
                     ELSE map
         IN  ForEachViewport(map1, viewports, i + 1)

_buildViewportMap(m) ==
    [m EXCEPT !.viewportMap = ForEachViewport(EmptyMap, m.viewports, 1)]

\* oldControllers[view.id] finding nothing, whatever the id
OldControllerNever(oldControllers, id) == <<>>

\* oldControllers[view.id]: <<>> when there is none
OldController(oldControllers, id) ==
    IF id \in DOMAIN oldControllers THEN <<oldControllers[id]>> ELSE <<>>

\* views.map(view => ...) from the i-th view on
RECURSIVE MapViews(_, _, _)
MapViews(m, oldControllers, i) ==
    IF i > Len(m.views) THEN m
    ELSE LET view == m.views[i]
             vs == getViewState(m, view.id)
             viewport == makeViewport(view, m.width, m.height, vs)
             m1 == [m EXCEPT !.made = Append(@, [view |-> view, width |-> m.width,
                                                  height |-> m.height, viewState |-> vs]),
                             !.viewports = Append(@, viewport)]
             controllerProps == [type |-> view.controller, zoom |-> vs.zoom,
                                 id |-> view.id, x |-> viewport.x, y |-> viewport.y,
                                 width |-> viewport.width, height |-> viewport.height]
             old == OldController(oldControllers, view.id)
             m2 == IF old # <<>>
                   THEN ControllerSetProps(m1, old[1], controllerProps)
                   ELSE _createController(m1, controllerProps)
             controller == IF old # <<>> THEN old[1] ELSE Fresh(m1)
             m3 == IF view.controller # NoController
                   THEN [m2 EXCEPT !.controllers = Put(@, view.id, controller)]
                   ELSE m1
         IN  MapViews(m3, oldControllers, i + 1)

\* _rebuildViewportsFromViews filling the controllers map it had, without emptying it
RebuildKeepingOldKeys(m) ==
    LET updateReason == m.needsUpdate
    IN  IF Truthy(updateReason)
        THEN LET oldControllers == m.controllers
                 m1 == MapViews([m EXCEPT !.viewports = <<>>], oldControllers, 1)
                 unused == {id \in DOMAIN oldControllers : id \notin DOMAIN m1.controllers}
                 m2 == FinalizeKeys(m1, oldControllers, unused)
                 m3 == _buildViewportMap(m2)
             IN  [m3 EXCEPT !.needsUpdate = JsFalse]
        ELSE m

_rebuildViewportsFromViews(m) ==
    LET updateReason == m.needsUpdate
    IN  IF Truthy(updateReason)
        THEN LET oldControllers == m.controllers
                 m1 == MapViews([m EXCEPT !.controllers = EmptyMap, !.viewports = <<>>],
                                oldControllers, 1)
                 unused == {id \in DOMAIN oldControllers : id \notin DOMAIN m1.controllers}
                 m2 == FinalizeKeys(m1, oldControllers, unused)
                 m3 == _buildViewportMap(m2)
             IN  [m3 EXCEPT !.needsUpdate = JsFalse]
        ELSE m

\* ------------------------------------------------------------ public methods
\* viewport.containsPixel({x, y})
containsPixel(viewport, rect) ==
    /\ rect.x >= viewport.x /\ rect.x < viewport.x + viewport.width
    /\ rect.y >= viewport.y /\ rect.y < viewport.y + viewport.height

getViewports(m, rect) ==
    IF rect # Undefined
    THEN SelectSeq(m.viewports, LAMBDA viewport : containsPixel(viewport, rect))
    ELSE m.viewports

getViewport(m, viewId) ==
    IF viewId \in DOMAIN m.viewportMap THEN <<m.viewportMap[viewId]>> ELSE <<>>

\* The viewport's projection: world units are 2^zoom pixels, from its left top corner.
Scale(zoom) == 2 ^ zoom
\* viewport.project(xyz, opts)
ViewportProject(viewport, xyz) ==
    [x |-> viewport.x + xyz.x * Scale(viewport.zoom),
     y |-> viewport.y + xyz.y * Scale(viewport.zoom)]
\* viewport.unproject(xyz)
ViewportUnproject(viewport, xyz) ==
    [x |-> (xyz.x - viewport.x) \div Scale(viewport.zoom),
     y |-> (xyz.y - viewport.y) \div Scale(viewport.zoom)]
\* viewport.contains(xyz, opts): the point, in world space, falls inside the viewport
contains(viewport, xyz) == containsPixel(viewport, ViewportProject(viewport, xyz))

\* The result of a scan: the value returned and the viewports whose test was called.
ScanResult(ret, consulted) == [ret |-> ret, consulted |-> consulted]

\* project scanning from the first declared viewport on
RECURSIVE ProjectForward(_, _, _, _)
ProjectForward(viewports, xyz, i, consulted) ==
    IF i > Len(viewports) THEN ScanResult(Null, consulted)
    ELSE IF contains(viewports[i], xyz)
         THEN ScanResult(ViewportProject(viewports[i], xyz), Append(consulted, i))
         ELSE ProjectForward(viewports, xyz, i + 1, Append(consulted, i))
ProjectFirstDeclared(m, xyz) == ProjectForward(getViewports(m, Undefined), xyz, 1, <<>>)

\* for (let i = ...; i >= 0; --i) of project, from the i-th viewport down
RECURSIVE ProjectLoop(_, _, _, _)
ProjectLoop(viewports, xyz, i, consulted) ==
    IF i < 1 THEN ScanResult(Null, consulted)
    ELSE LET viewport == viewports[i]
         IN  IF contains(viewport, xyz)
             THEN ScanResult(ViewportProject(viewport, xyz), Append(consulted, i))
             ELSE ProjectLoop(viewports, xyz, i - 1, Append(consulted, i))

project(m, xyz) ==
    LET viewports == getViewports(m, Undefined)
    IN  ProjectLoop(viewports, xyz, Len(viewports), <<>>)

\* for (let i = ...; i >= 0; --i) of unproject, from the i-th viewport down
RECURSIVE UnprojectLoop(_, _, _, _)
UnprojectLoop(viewports, xyz, i, consulted) ==
    IF i < 1 THEN ScanResult(Null, consulted)
    ELSE LET viewport == viewports[i]
         IN  IF containsPixel(viewport, xyz)
             THEN ScanResult(ViewportUnproject(viewport, xyz), Append(consulted, i))
             ELSE UnprojectLoop(viewports, xyz, i - 1, Append(consulted, i))

unproject(m, xyz) ==
    LET viewports == getViewports(m, Undefined)
    IN  UnprojectLoop(viewports, xyz, Len(viewports), <<>>)

Keys == {"views", "viewState", "width", "height"}

\* setProps rebuilding after each key it applies
SetPropsRebuildEach(m, props) ==
    LET m1 == IF "views" \in props.keys
              THEN _rebuildViewportsFromViews(_setViews(m, props.views))
              ELSE m
        m2 == IF "viewState" \in props.keys
              THEN _rebuildViewportsFromViews(_setViewState(m1, props.viewState))
              ELSE m1
        m3 == IF "width" \in props.keys \/ "height" \in props.keys
              THEN _setSize(m2, props.width, props.height)
              ELSE m2
    IN  IF m3.threw THEN m3 ELSE _rebuildViewportsFromViews(m3)

\* setProps rebuilding before it sets the size
SetPropsRebuildBeforeSize(m, props) ==
    LET m1 == IF "views" \in props.keys THEN _setViews(m, props.views) ELSE m
        m2 == IF "viewState" \in props.keys THEN _setViewState(m1, props.viewState) ELSE m1
        m3 == _rebuildViewportsFromViews(m2)
    IN  IF "width" \in props.keys \/ "height" \in props.keys
        THEN _setSize(m3, props.width, props.height)
        ELSE m3

setProps(m, props) ==
    LET m1 == IF "views" \in props.keys THEN _setViews(m, props.views) ELSE m
        m2 == IF "viewState" \in props.keys THEN _setViewState(m1, props.viewState) ELSE m1
        m3 == IF "width" \in props.keys \/ "height" \in props.keys
              THEN _setSize(m2, props.width, props.height)
              ELSE m2
    IN  IF m3.threw THEN m3 ELSE _rebuildViewportsFromViews(m3)

\* finalize leaving the controllers in the map
FinalizeKeepingMap(m) == FinalizeKeys(m, m.controllers, DOMAIN m.controllers)

finalize(m) ==
    [FinalizeKeys(m, m.controllers, DOMAIN m.controllers) EXCEPT !.controllers = EmptyMap]

\* The fields the constructor assigns before it calls setProps.
Constructed ==
    [views |-> <<>>, width |-> 100, height |-> 100,
     viewState |-> ViewStateObject(0, EmptyPer),
     controllers |-> EmptyMap, viewports |-> <<>>, viewportMap |-> EmptyMap,
     needsRedraw |-> "Initial render", needsUpdate |-> JsTrue, ctl |-> EmptyMap,
     made |-> <<>>, created |-> <<>>, updated |-> <<>>, finalized |-> EmptyMap,
     raised |-> <<>>, warned |-> 0, threw |-> FALSE, ret |-> Undefined]

\* ------------------------------------------------------------ inputs
Absent == [t |-> "absent"]
viewA == View("a", "MapController", 0)
viewA1 == View("a", "MapController", 1)
viewA2 == [View("a", "OrbitController", 2) EXCEPT !.x = 50]
viewB == View("b", "MapController", 0)
nakedViewport == Viewport("b", 0, 0, 50, 50, 0)

\* The arrays a caller passes as props.views.
ViewsInputs ==
    { <<ViewItem(viewA)>>,
      <<Arr(<<ViewItem(viewA1)>>), Null>>,
      <<ViewItem(viewA), ViewItem(viewB)>>,
      <<ViewItem(viewA), ViewItem(viewA2)>>,
      <<ViewItem(viewA1), ViewportItem(nakedViewport, 0)>> }

\* The views a call that supplies views together with other keys passes: one view,
\* with the id of view a and another controller kind.
CombinedViews == <<ViewItem(viewA2)>>

ViewStateInputs ==
    { Null,
      Obj(ViewStateObject(0, EmptyPer)),
      Obj(ViewStateObject(1, EmptyPer)),
      Obj(ViewStateObject(1, [i \in {"a"} |-> 2])) }

WidthInputs == {Num(100), Num(200)}
HeightInputs == {Num(100), NaN}
Reasons == {"reason 1"}
\* The points passed to project and unproject.
Points == {[x |-> 10, y |-> 10], [x |-> 60, y |-> 10], [x |-> 120, y |-> 10],
           [x |-> 300, y |-> 300]}

MakeProps(v, s, w, h) ==
    [keys |-> {k \in Keys : \/ k = "views" /\ v # Absent
                            \/ k = "viewState" /\ s # Absent
                            \/ k = "width" /\ w # Absent
                            \/ k = "height" /\ h # Absent},
     views |-> v, viewState |-> s,
     width |-> IF w = Absent THEN Undefined ELSE w,
     height |-> IF h = Absent THEN Undefined ELSE h]

PropsFull ==
    { MakeProps(v, s, w, h) :
        v \in {Absent} \cup {Arr(a) : a \in ViewsInputs \cup {CombinedViews}},
        s \in {Absent} \cup ViewStateInputs,
        w \in {Absent} \cup WidthInputs,
        h \in {Absent} \cup HeightInputs }

\* The values a call that supplies views or viewState together with other keys uses.
Combined(p) ==
    /\ "views" \in p.keys => p.views = Arr(CombinedViews)
    /\ "viewState" \in p.keys => p.viewState = Obj(ViewStateObject(1, [i \in {"a"} |-> 2]))
    /\ "width" \in p.keys => p.width = Num(200)

\* The props objects passed to the constructor and to setProps: every subset of keys.
PropsInputs ==
    { p \in PropsFull : \/ Cardinality(p.keys) <= 1 /\ p.views # Arr(CombinedViews)
                        \/ p.keys = {"width", "height"}
                        \/ Cardinality(p.keys) >= 2 /\ Combined(p) }

\* ------------------------------------------------------------ actions
\* What the last public call did: the method, its outcome and the calls it made.
LogEntry(op, clear, r) ==
    [op |-> op, clear |-> clear, threw |-> r.threw, ret |-> r.ret, made |-> r.made,
     created |-> r.created, updated |-> r.updated, finalized |-> r.finalized,
     raised |-> r.raised, warned |-> r.warned]

\* The instances that remain after a public call: an instance that is referenced by
\* nothing and was finalized exactly once is gone for good.
Collect(r) ==
    LET live == {r.controllers[id] : id \in DOMAIN r.controllers}
        keep == {c \in DOMAIN r.ctl : c \in live \/ r.ctl[c].finalized # 1}
    IN  [c \in keep |-> r.ctl[c]]

\* The earliest raise since the redraw flag was consumed, given the raises of a call.
Earliest(first, raised) ==
    IF first = JsFalse /\ Len(raised) > 0 THEN raised[1] ELSE first

Commit(r) ==
    /\ views' = r.views
    /\ width' = r.width
    /\ height' = r.height
    /\ viewState' = r.viewState
    /\ controllers' = r.controllers
    /\ _viewports' = r.viewports
    /\ _viewportMap' = r.viewportMap
    /\ _needsRedraw' = r.needsRedraw
    /\ _needsUpdate' = r.needsUpdate
    /\ ctl' = Collect(r)

\* new ViewManager(props), for the props with which the constructor returns
Init ==
    \E props \in PropsInputs :
        \E r \in {setProps(Constructed, props)} :
            /\ ~r.threw
            /\ Cardinality(DOMAIN r.ctl) <= MaxControllers
            /\ views = r.views
            /\ width = r.width
            /\ height = r.height
            /\ viewState = r.viewState
            /\ controllers = r.controllers
            /\ _viewports = r.viewports
            /\ _viewportMap = r.viewportMap
            /\ _needsRedraw = r.needsRedraw
            /\ _needsUpdate = r.needsUpdate
            /\ ctl = Collect(r)
            /\ log = LogEntry("constructor", FALSE, r)
            /\ firstRaise = "Initial render"

SetPropsOp ==
    \E props \in PropsInputs :
        \E r \in {setProps(Manager, props)} :
            /\ Cardinality(DOMAIN r.ctl) <= MaxControllers
            /\ Commit(r)
            /\ log' = LogEntry("setProps", FALSE, r)
            /\ firstRaise' = Earliest(firstRaise, r.raised)

FinalizeOp ==
    \E r \in {finalize(Manager)} :
        /\ Commit(r)
        /\ log' = LogEntry("finalize", FALSE, r)
        /\ UNCHANGED firstRaise

NeedsRedrawOp ==
    \E clearRedrawFlags \in BOOLEAN :
        \E r \in {needsRedraw(Manager, clearRedrawFlags)} :
            /\ Commit(r)
            /\ log' = LogEntry("needsRedraw", clearRedrawFlags, r)
            /\ firstRaise' = IF clearRedrawFlags THEN JsFalse ELSE firstRaise

SetNeedsRedrawOp ==
    \E reason \in Reasons :
        \E r \in {setNeedsRedraw(Manager, reason)} :
            /\ Commit(r)
            /\ log' = LogEntry("setNeedsRedraw", FALSE, r)
            /\ firstRaise' = Earliest(firstRaise, r.raised)

SetNeedsUpdateOp ==
    \E reason \in Reasons :
        \E r \in {setNeedsUpdate(Manager, reason)} :
            /\ Commit(r)
            /\ log' = LogEntry("setNeedsUpdate", FALSE, r)
            /\ firstRaise' = Earliest(firstRaise, r.raised)

Next ==
    \/ SetPropsOp
    \/ FinalizeOp
    \/ NeedsRedrawOp
    \/ SetNeedsRedrawOp
    \/ SetNeedsUpdateOp

Spec == Init /\ [][Next]_vars

\* ------------------------------------------------------------ properties
ViewIds(vs) == {vs[i].id : i \in DOMAIN vs}
Range(s) == {s[i] : i \in DOMAIN s}
Returned == log.op \in {"constructor", "setProps"} /\ ~log.threw

\* C1: after the constructor and after every setProps call that returns normally,
\* getViewports() with no filter returns as many viewports as there are views.
CountInvariant ==
    Returned => Len(getViewports(Manager, Undefined)) = Len(views)

\* C1 witness: a setProps call has returned after rebuilding two viewports for two views.
CountWitness ==
    /\ log.op = "setProps" /\ ~log.threw
    /\ Len(log.made) = 2
    /\ Len(views) = 2
    /\ Len(_viewports) = 2

HasController(vs, id) ==
    \E i \in DOMAIN vs : vs[i].id = id /\ vs[i].controller # NoController

\* C2, as a condition on one step: when a setProps call detects a size change and nothing else, and a view with id
\* a that declares a controller is in the view list before and after the call, then
\* controllers[a] is the same instance as before, that instance was not constructed
\* and not finalized by the call, and it received setProps with the new width and height.
IdentityPreservedStep ==
    \A id \in DOMAIN controllers :
        ( /\ log'.op = "setProps" /\ ~log'.threw
          /\ log'.raised = <<"Size changed">>
          /\ HasController(views, id) /\ HasController(views', id) )
        => /\ id \in DOMAIN controllers'
           /\ controllers'[id] = controllers[id]
           /\ controllers[id] \notin Range(log'.created)
           /\ controllers[id] \notin DOMAIN log'.finalized
           /\ ctl'[controllers[id]] = ctl[controllers[id]]
           /\ \E k \in DOMAIN log'.updated :
                 /\ log'.updated[k].controller = controllers[id]
                 /\ log'.updated[k].props.id = id
                 /\ log'.updated[k].props.width = width'
                 /\ log'.updated[k].props.height = height'
\* C2: identity preservation. Every step satisfies IdentityPreservedStep: a controller
\* whose view persists over a setProps call that changes only the size is the same
\* instance afterwards, neither constructed nor finalized, and was given the new props.
IdentityPreserved == [][IdentityPreservedStep]_vars

\* C2 witness: a setProps call that detected only a size change has updated, and not
\* constructed, the controller of view a.
IdentityWitness ==
    /\ log.op = "setProps" /\ ~log.threw
    /\ log.raised = <<"Size changed">>
    /\ log.created = <<>>
    /\ HasController(views, "a")
    /\ "a" \in DOMAIN controllers
    /\ \E k \in DOMAIN log.updated : log.updated[k].controller = controllers["a"]

\* C3, as a condition on one step: when a setProps call returns and a view id that had a controller is not in the
\* view list any more, that controller had finalize called exactly once during the
\* call, and controllers holds only ids of the views that remain, none of them finalized.
DisposalStep ==
    \A id \in DOMAIN controllers :
        ( /\ log'.op = "setProps" /\ ~log'.threw
          /\ id \notin ViewIds(views') )
        => /\ controllers[id] \in DOMAIN log'.finalized
           /\ log'.finalized[controllers[id]] = 1
           /\ DOMAIN controllers' \subseteq ViewIds(views')
           /\ \A k \in DOMAIN controllers' :
                 /\ controllers'[k] \notin DOMAIN log'.finalized
                 /\ ctl'[controllers'[k]].finalized = 0
\* C3: disposal. Every step satisfies DisposalStep: the controller of a view id that a
\* setProps call removes is finalized exactly once during the call, and controllers
\* keeps only the remaining ids, with controllers that are not finalized.
Disposal == [][DisposalStep]_vars

\* C3 witness: a setProps call has dropped view b, finalized its controller once and
\* left only the controller of a.
DisposalWitness ==
    /\ log.op = "setProps" /\ ~log.threw
    /\ ViewIds(views) = {"a"}
    /\ DOMAIN controllers = {"a"}
    /\ \E c \in DOMAIN log.finalized : log.finalized[c] = 1 /\ c # controllers["a"]
    /\ Len(log.updated) = 1 /\ log.updated[1].controller = controllers["a"]

\* The view list a call with props p stores, and whether p supplies again what the
\* manager holds: views equal element by element, a deep-equal viewState, the same size.
NewViews(p) == _setViews(Manager, p.views).views
Resupplies(p) ==
    /\ "views" \in p.keys =>
          /\ Len(NewViews(p)) = Len(views)
          /\ \A i \in DOMAIN views : ViewEquals(NewViews(p)[i], <<views[i]>>)
    /\ "viewState" \in p.keys =>
          TruthyValue(p.viewState) /\ deepEqual(p.viewState.v, viewState)
    /\ ("width" \in p.keys \/ "height" \in p.keys) =>
          p.width = Num(width) /\ p.height = Num(height)

\* C4: idempotent rebuild and view-list short-circuit. In every state reached with the
\* update flag clear, a setProps call with an empty object, or with views equal element
\* by element to the current ones, a deep-equal viewState and the current size, returns,
\* raises no flag, leaves needsUpdate and needsRedraw as they were, constructs no
\* controller, finalizes none and calls makeViewport on no view.
IdempotentRebuild ==
    ~Truthy(_needsUpdate) =>
        \A p \in PropsInputs :
            Resupplies(p) =>
                LET r == setProps(Manager, p)
                IN  /\ ~r.threw
                    /\ r.raised = <<>>
                    /\ r.needsUpdate = _needsUpdate
                    /\ r.needsRedraw = _needsRedraw
                    /\ r.created = <<>>
                    /\ r.finalized = EmptyMap
                    /\ r.made = <<>>
                    /\ r.controllers = controllers
                    /\ r.viewports = _viewports

\* C4 witness: a setProps call has just returned without raising a flag or rebuilding,
\* and the manager holds views that a caller can supply again as other instances in
\* another array.
IdempotentWitness ==
    /\ log.op = "setProps" /\ ~log.threw
    /\ log.raised = <<>> /\ log.made = <<>>
    /\ ~Truthy(_needsUpdate)
    /\ controllers # EmptyMap
    /\ \E p \in PropsInputs :
          /\ Resupplies(p)
          /\ "views" \in p.keys
          /\ NewViews(p) # views

\* Whether every value p supplies is valid: a truthy viewState, finite numbers.
ValidValues(p) ==
    /\ "viewState" \in p.keys => TruthyValue(p.viewState)
    /\ "width" \in p.keys => IsFinite(p.width)
    /\ "height" \in p.keys => IsFinite(p.height)

\* C5: partial property sets. In every state, for every subset of the keys supplied
\* with valid values, setProps returns normally, stores the supplied views, viewState,
\* width and height, and leaves the stored value of every absent key unchanged.
PartialPropsApply ==
    \A p \in PropsInputs :
        ValidValues(p) =>
            LET r == setProps(Manager, p)
            IN  /\ ~r.threw
                /\ r.views = (IF "views" \in p.keys THEN NewViews(p) ELSE views)
                /\ r.viewState = (IF "viewState" \in p.keys THEN p.viewState.v ELSE viewState)
                /\ r.width = (IF "width" \in p.keys THEN p.width.v ELSE width)
                /\ r.height = (IF "height" \in p.keys THEN p.height.v ELSE height)

\* C6, as a condition on one step: needsRedraw returns the flag; with clearRedrawFlags
\* it resets the flag to false, so the next consuming call returns false; without it
\* nothing changes; the first call after construction returns 'Initial render'.
OneShotRedrawStep ==
    log'.op = "needsRedraw" =>
        /\ log'.ret = [t |-> "flag", v |-> _needsRedraw]
        /\ _needsRedraw' = (IF log'.clear THEN JsFalse ELSE _needsRedraw)
        /\ UNCHANGED <<views, width, height, viewState, controllers, _viewports,
                       _viewportMap, _needsUpdate, ctl>>
        /\ (log.op = "needsRedraw" /\ log.clear) => log'.ret.v = JsFalse
        /\ log.op = "constructor" => log'.ret.v = "Initial render"
\* C6: one-shot redraw consumption. Every step satisfies OneShotRedrawStep.
OneShotRedraw == [][OneShotRedrawStep]_vars

\* C6 witness: a consuming needsRedraw() has returned 'Initial render' and left the
\* flag false.
OneShotWitness ==
    /\ log.op = "needsRedraw" /\ log.clear
    /\ log.ret.v = "Initial render"
    /\ _needsRedraw = JsFalse

\* C7, as a condition on one step: a redraw flag that holds a reason keeps it over every
\* call but a consuming needsRedraw; an update flag that holds a reason keeps it over
\* setNeedsRedraw, setNeedsUpdate and a failed setProps; a flag that was clear takes the
\* first reason a call raises; a consuming needsRedraw returns the earliest reason
\* raised since the previous consumption.
StickyFirstReasonStep ==
    /\ (Truthy(_needsRedraw) /\ ~(log'.op = "needsRedraw" /\ log'.clear))
          => _needsRedraw' = _needsRedraw
    /\ (~Truthy(_needsRedraw) /\ Len(log'.raised) > 0)
          => _needsRedraw' = log'.raised[1]
    /\ ( /\ Truthy(_needsUpdate)
         /\ \/ log'.op \in {"setNeedsRedraw", "setNeedsUpdate"}
            \/ log'.op = "setProps" /\ log'.threw )
          => _needsUpdate' = _needsUpdate
    /\ ( /\ ~Truthy(_needsUpdate) /\ Len(log'.raised) > 0
         /\ \/ log'.op = "setNeedsUpdate"
            \/ log'.op = "setProps" /\ log'.threw )
          => _needsUpdate' = log'.raised[1]
    /\ (log'.op = "needsRedraw" /\ log'.clear) => log'.ret.v = firstRaise
\* C7: sticky first reason. Every step satisfies StickyFirstReasonStep.
StickyFirstReason == [][StickyFirstReasonStep]_vars

\* C7 witness: a setProps call has detected several changes at once while the redraw
\* flag held an earlier reason, and the flag still holds that reason.
StickyWitness ==
    /\ log.op = "setProps"
    /\ Len(log.raised) >= 2
    /\ Truthy(_needsRedraw)
    /\ _needsRedraw \notin Range(log.raised)
    /\ firstRaise = _needsRedraw

\* The props p without the viewState key.
WithoutViewState(p) ==
    [p EXCEPT !.keys = @ \ {"viewState"}, !.viewState = Absent]

\* C8: null view state is rejected without effect. In every state, a setProps call
\* whose viewState is falsy leaves the stored viewState unchanged and does exactly what
\* the same call without the viewState key does, apart from the warning it logs: alone
\* it returns normally, raises neither flag and rebuilds no viewport or controller.
NullViewStateRejected ==
    \A p \in PropsInputs :
        ("viewState" \in p.keys /\ ~TruthyValue(p.viewState)) =>
            LET r == setProps(Manager, p)
            IN  /\ r.viewState = viewState
                /\ r.warned = 1
                /\ r = [setProps(Manager, WithoutViewState(p)) EXCEPT !.warned = 1]
                /\ p.keys = {"viewState"} =>
                      /\ ~r.threw
                      /\ r.raised = <<>>
                      /\ r.needsRedraw = _needsRedraw
                      /\ r.needsUpdate = (IF Truthy(_needsUpdate) THEN JsFalse
                                          ELSE _needsUpdate)
                      /\ ~Truthy(_needsUpdate) =>
                            /\ r.made = <<>> /\ r.created = <<>>
                            /\ r.finalized = EmptyMap
                            /\ r.viewports = _viewports
                            /\ r.controllers = controllers

\* C8 witness: a setProps call that logged the null-viewState warning has returned
\* without raising a flag or rebuilding, the view state being a non-empty one.
NullViewStateWitness ==
    /\ log.op = "setProps" /\ ~log.threw
    /\ log.warned = 1
    /\ log.raised = <<>> /\ log.made = <<>>
    /\ viewState # ViewStateObject(0, EmptyPer)
    /\ Len(views) > 0

\* C9: invalid size fails fast. In every state, a setProps call that supplies a width
\* or a height that is not a finite number throws, with the stored width and height,
\* the viewports, the viewport map, the controllers and their instances as before the
\* call, and without a makeViewport, constructor, setProps or finalize call made.
InvalidSizeFailsFast ==
    \A p \in PropsInputs :
        ( \/ "width" \in p.keys /\ ~IsFinite(p.width)
          \/ "height" \in p.keys /\ ~IsFinite(p.height) ) =>
            LET r == setProps(Manager, p)
            IN  /\ r.threw
                /\ r.width = width /\ r.height = height
                /\ r.viewports = _viewports
                /\ r.viewportMap = _viewportMap
                /\ r.controllers = controllers
                /\ r.ctl = ctl
                /\ r.made = <<>> /\ r.created = <<>>
                /\ r.updated = <<>> /\ r.finalized = EmptyMap

\* C9 witness: a setProps call has thrown after it had replaced the views, leaving the
\* update pending and the viewports of the earlier views.
InvalidSizeWitness ==
    /\ log.op = "setProps" /\ log.threw
    /\ "views changed" \in Range(log.raised)
    /\ log.made = <<>>
    /\ Truthy(_needsUpdate)
    /\ Len(_viewports) # Len(views)

\* C10: finalize releases every controller. After finalize() returns, the controllers
\* map is empty and every controller instance the manager constructed has had
\* finalize called on it (an instance finalized once and referenced by nothing is no
\* longer in ctl).
FinalizeReleasesAll ==
    log.op = "finalize" =>
        /\ controllers = EmptyMap
        /\ \A c \in DOMAIN ctl : ctl[c].finalized >= 1

\* C11: controllers match views. In every state reached when the constructor, a
\* setProps call or finalize has returned normally, and in every state where no update
\* is pending, every key of controllers is the id of a view of the current list that
\* declares a controller.
ControllersMatchViews ==
    ( \/ log.op \in {"constructor", "setProps", "finalize"} /\ ~log.threw
      \/ ~Truthy(_needsUpdate) )
    => \A id \in DOMAIN controllers : HasController(views, id)

\* C11 witness: a setProps call has replaced the view b that declared a controller by
\* a view b that declares none; the controller of b was finalized and only a has one.
ControllersMatchWitness ==
    /\ log.op = "setProps" /\ ~log.threw
    /\ "b" \in ViewIds(views) /\ ~HasController(views, "b")
    /\ DOMAIN controllers = {"a"}
    /\ log.finalized # EmptyMap

\* The viewports, by position, that accept a point, and the last declared of them.
Accepting(test(_, _), P) == {i \in DOMAIN _viewports : test(_viewports[i], P)}
Last(S) == CHOOSE i \in S : \A j \in S : j <= i

\* C12: z-order resolution. In every state and for every point P, project(P) returns
\* the projection by the last declared viewport whose contains accepts P, unproject(P)
\* the unprojection by the last declared viewport whose containsPixel accepts P, each
\* returns null when no viewport accepts P, and neither calls the test of a viewport
\* declared before the one whose result it returns.
ZOrderResolution ==
    \A P \in Points :
        /\ LET r == project(Manager, P)
               S == Accepting(contains, P)
           IN  IF S = {} THEN r.ret = Null
               ELSE /\ r.ret = ViewportProject(_viewports[Last(S)], P)
                    /\ \A k \in DOMAIN r.consulted : r.consulted[k] >= Last(S)
        /\ LET r == unproject(Manager, P)
               S == Accepting(containsPixel, P)
           IN  IF S = {} THEN r.ret = Null
               ELSE /\ r.ret = ViewportUnproject(_viewports[Last(S)], P)
                    /\ \A k \in DOMAIN r.consulted : r.consulted[k] >= Last(S)

\* C12 witness: two viewports both accept a point, in world space and in pixel space,
\* with different results; project and unproject return the results of the second
\* after calling the test of the second only, and return null for a point outside both.
ZOrderWitness ==
    /\ Len(_viewports) = 2
    /\ \E P \in Points :
          /\ Accepting(contains, P) = {1, 2}
          /\ Accepting(containsPixel, P) = {1, 2}
          /\ ViewportProject(_viewports[1], P) # ViewportProject(_viewports[2], P)
          /\ ViewportUnproject(_viewports[1], P) # ViewportUnproject(_viewports[2], P)
          /\ project(Manager, P) = ScanResult(ViewportProject(_viewports[2], P), <<2>>)
          /\ unproject(Manager, P) = ScanResult(ViewportUnproject(_viewports[2], P), <<2>>)
    /\ \E P \in Points :
          /\ project(Manager, P) = ScanResult(Null, <<2, 1>>)
          /\ unproject(Manager, P) = ScanResult(Null, <<2, 1>>)

\* The ids looked up: those of the views and one that no view has.
LookupIds == {"a", "b", "c"}
First(S) == CHOOSE i \in S : \A j \in S : i <= j

\* C13: first-wins id lookup. In every state, getViewport(id) returns the first
\* viewport in declared order whose id is id and nothing when no current viewport has
\* that id; a rebuild over viewports that share an id does not throw.
FirstWinsLookup ==
    /\ \A id \in LookupIds :
          LET S == {i \in DOMAIN _viewports : _viewports[i].id = id}
          IN  getViewport(Manager, id) =
                  (IF S = {} THEN <<>> ELSE <<_viewports[First(S)]>>)
    /\ log.made # <<>> => ~log.threw

\* C13 witness: a setProps call has rebuilt two different viewports of id a and dropped
\* the view b, whose controller it finalized; getViewport returns the first viewport
\* for a and nothing for b.
FirstWinsWitness ==
    /\ log.op = "setProps" /\ Len(log.made) = 2
    /\ log.finalized # EmptyMap
    /\ Len(_viewports) = 2
    /\ _viewports[1].id = "a" /\ _viewports[2].id = "a"
    /\ _viewports[1] # _viewports[2]
    /\ getViewport(Manager, "a") = <<_viewports[1]>>
    /\ getViewport(Manager, "b") = <<>>

\* C14, as a condition on one step: over a setProps call that returns, an instance that
\* stays in controllers under its id does so only when a view with that id that
\* declares a controller is in the new list, and every instance the rebuild reuses
\* (calls setProps on) is of the controller kind the view it is reused for declares.
KindBoundStep ==
    (log'.op = "setProps" /\ ~log'.threw) =>
        /\ \A id \in DOMAIN controllers :
              (id \in DOMAIN controllers' /\ controllers'[id] = controllers[id])
              => HasController(views', id)
        /\ \A k \in DOMAIN log'.updated :
              ctl[log'.updated[k].controller].type = log'.updated[k].props.type
\* C14: controller lifetime is bound to id and kind. Every step satisfies
\* KindBoundStep: a controller is carried over a rebuild only while a view with its id
\* persists with the same controller kind, and is not reused for a view of another kind.
KindBoundLifetime == [][KindBoundStep]_vars

\* The makeViewport calls of one rebuild of the current views with the current width,
\* height and view state: one per view, in order.
MadeOnce ==
    [i \in 1..Len(views) |->
        [view |-> views[i], width |-> width, height |-> height,
         viewState |-> getViewState(Manager, views[i].id)]]

\* C15, the state when the constructor or setProps has returned: needsUpdate is false,
\* and makeViewport was called either not at all or once per current view with the
\* width, height and view state the call left.
UpdateClearedState ==
    Returned => /\ _needsUpdate = JsFalse
                /\ log.made = <<>> \/ log.made = MadeOnce
\* C15, as a condition on one step: a setProps call that returns with no update pending
\* before it and no change detected calls nothing and leaves the viewports; otherwise
\* it calls makeViewport once per view.
UpdateClearedStep ==
    (log'.op = "setProps" /\ ~log'.threw) =>
        IF ~Truthy(_needsUpdate) /\ log'.raised = <<>>
        THEN /\ log'.made = <<>> /\ log'.created = <<>> /\ log'.updated = <<>>
             /\ log'.finalized = EmptyMap
             /\ UNCHANGED <<_viewports, _viewportMap, controllers, ctl>>
        ELSE Len(log'.made) = Len(views')
\* C15: the update flag is cleared by every setProps. Whenever the constructor or
\* setProps returns normally needsUpdate is false; within one call the rebuild runs at
\* most once, after all supplied keys were applied, and not at all when needsUpdate was
\* false after applying the keys.
UpdateCleared == []UpdateClearedState /\ [][UpdateClearedStep]_vars

\* C15 witness: a setProps call that detected a change of the views, of the view state
\* and of the size has returned after one makeViewport call for its view.
UpdateClearedWitness ==
    /\ log.op = "setProps" /\ ~log.threw
    /\ log.raised = <<"views changed", "viewState changed", "Size changed">>
    /\ Len(views) = 1
    /\ log.made = MadeOnce
    /\ _needsUpdate = JsFalse

\* C16, as a condition on one step: when a setProps call returns after its rebuild has
\* executed (an update was pending before the call or the call detected a change),
\* needsRedraw is truthy; and no setProps call turns a truthy redraw flag false.
RebuildLeavesRedrawStep ==
    (log'.op = "setProps" /\ ~log'.threw) =>
        /\ (Truthy(_needsUpdate) \/ log'.raised # <<>>) => Truthy(_needsRedraw')
        /\ Truthy(_needsRedraw) => Truthy(_needsRedraw')
\* C16: a rebuild leaves the redraw flag set. Every step satisfies
\* RebuildLeavesRedrawStep, whatever calls of setNeedsUpdate, setNeedsRedraw,
\* needsRedraw and setProps came before.
RebuildLeavesRedraw == [][RebuildLeavesRedrawStep]_vars

\* C17, as a condition on one step: a call of setNeedsUpdate, or of setProps that
\* detects a change, leaves the redraw flag truthy, a clear redraw flag holding exactly
\* the first reason raised; and needsUpdate turns truthy only in such a step.
UpdateImpliesRedrawStep ==
    /\ (log'.op \in {"setNeedsUpdate", "setProps"} /\ log'.raised # <<>>) =>
          /\ Truthy(_needsRedraw')
          /\ _needsRedraw' = (IF Truthy(_needsRedraw) THEN _needsRedraw
                              ELSE log'.raised[1])
    /\ (~Truthy(_needsUpdate) /\ Truthy(_needsUpdate')) =>
          /\ log'.op \in {"setNeedsUpdate", "setProps"}
          /\ log'.raised # <<>>
          /\ _needsUpdate' = log'.raised[1]
          /\ Truthy(_needsRedraw')
\* C17: update implies redraw. No update is pending when the constructor returns, and
\* every step satisfies UpdateImpliesRedrawStep: the step that makes needsUpdate truthy
\* raises the redraw flag with the same reason.
UpdateImpliesRedraw ==
    (log.op = "constructor" => ~Truthy(_needsUpdate)) /\ [][UpdateImpliesRedrawStep]_vars

\* C17 witness: setNeedsUpdate was called with both flags clear, and both hold its
\* reason.
UpdateImpliesRedrawWitness ==
    /\ log.op = "setNeedsUpdate"
    /\ log.raised = <<"reason 1">>
    /\ firstRaise = "reason 1"
    /\ _needsUpdate = "reason 1"
    /\ _needsRedraw = "reason 1"

\* C18: derived state is never stale. Whenever the constructor or setProps has
\* returned normally, the i-th viewport of getViewports() is what makeViewport of the
\* i-th current view gives for the current width, the current height and the view
\* state resolved for that view from the current viewState.
DerivedStateFresh ==
    Returned =>
        getViewports(Manager, Undefined) =
            [i \in 1..Len(views) |->
                makeViewport(views[i], width, height, getViewState(Manager, views[i].id))]

\* C18 witness: a setProps call has returned without rebuilding, so that the viewports
\* are those of earlier calls, after the size and the view state of view a were changed
\* and the views were supplied again as other instances.
DerivedStateWitness ==
    /\ log.op = "setProps" /\ ~log.threw
    /\ log.made = <<>>
    /\ width = 200
    /\ "a" \in DOMAIN viewState.per
    /\ Len(views) = 2 /\ views[1].ref = 1
    /\ _viewports[1] = Viewport("a", 0, 0, 200, 100, 2)

\* C19, the state after any call: no instance has had finalize called more than once,
\* and no instance in the controllers map has had it called.
NoUseAfterFinalizeState ==
    /\ \A c \in DOMAIN ctl : ctl[c].finalized <= 1
    /\ \A id \in DOMAIN controllers :
          /\ controllers[id] \in DOMAIN ctl
          /\ ctl[controllers[id]].finalized = 0
\* C19, as a condition on one step: a call calls finalize at most once on an instance,
\* only on instances of the map that were not finalized, and calls setProps only on
\* instances that were not finalized before the call and are not finalized by it.
NoUseAfterFinalizeStep ==
    /\ \A c \in DOMAIN log'.finalized :
          /\ log'.finalized[c] = 1
          /\ c \in Range(log'.created) \/ (c \in DOMAIN ctl /\ ctl[c].finalized = 0)
    /\ \A k \in DOMAIN log'.updated :
          LET c == log'.updated[k].controller
          IN  /\ c \in DOMAIN ctl /\ ctl[c].finalized = 0
              /\ c \notin DOMAIN log'.finalized
\* C19: no double finalize and no use after finalize. Over every sequence of calls, no
\* controller instance has finalize called on it more than once, and an instance that
\* was finalized is not stored in the controllers map nor given setProps afterwards.
NoUseAfterFinalize == []NoUseAfterFinalizeState /\ [][NoUseAfterFinalizeStep]_vars

\* C19 witness: finalize() has called finalize once on each of two controllers and
\* emptied the map, the views that declared them still being the current ones.
NoUseAfterFinalizeWitness ==
    /\ log.op = "finalize"
    /\ Cardinality(DOMAIN log.finalized) = 2
    /\ \A c \in DOMAIN log.finalized : log.finalized[c] = 1
    /\ controllers = EmptyMap /\ ctl = EmptyMap
    /\ HasController(views, "a") /\ HasController(views, "b")

\* C20, as a condition on one step: a setProps call that detects a change and then
\* throws leaves needsUpdate truthy and the viewports, the viewport map, the controllers
\* and their instances as they were, having called none of them; a setProps call that
\* returns while an update is pending rebuilds: it calls makeViewport once per view,
\* leaves as many viewports as views and needsUpdate false, and has called finalize
\* once on every controller of the map whose id no view that declares a controller has.
PendingUpdateSurvivesStep ==
    /\ (log'.op = "setProps" /\ log'.threw /\ log'.raised # <<>>) =>
          /\ Truthy(_needsUpdate')
          /\ UNCHANGED <<_viewports, _viewportMap, controllers, ctl, width, height>>
          /\ log'.made = <<>> /\ log'.created = <<>> /\ log'.updated = <<>>
          /\ log'.finalized = EmptyMap
    /\ (log'.op = "setProps" /\ ~log'.threw /\ Truthy(_needsUpdate)) =>
          /\ Len(log'.made) = Len(views')
          /\ Len(_viewports') = Len(views')
          /\ _needsUpdate' = JsFalse
          /\ \A id \in DOMAIN controllers :
                IF HasController(views', id)
                THEN id \in DOMAIN controllers' /\ controllers[id] \notin DOMAIN log'.finalized
                ELSE /\ id \notin DOMAIN controllers'
                     /\ controllers[id] \in DOMAIN log'.finalized
                     /\ log'.finalized[controllers[id]] = 1
\* C20: a pending update survives a failed call. Every step satisfies
\* PendingUpdateSurvivesStep: after a setProps call that changed views or viewState and
\* failed the size assertion the update stays pending with the old viewports and
\* controllers, and the next setProps call that returns performs the rebuild.
PendingUpdateSurvives == [][PendingUpdateSurvivesStep]_vars

\* C20 witness: a setProps call that detected no change itself has rebuilt the
\* viewports and finalized a controller: the views had been replaced by an earlier call
\* that threw, which left the update pending.
PendingUpdateWitness ==
    /\ log.op = "setProps" /\ ~log.threw
    /\ log.raised = <<>>
    /\ log.made # <<>>
    /\ log.finalized # EmptyMap
    /\ Len(_viewports) = Len(views)
    /\ _needsUpdate = JsFalse

====
